---- MODULE Spec2Model ----
(***************************************************************************)
(* Resilient-fetch subsystem of video-sum-mcp:                             *)
(*   - batch orchestration  (safe_crawler.py: batch_process_urls,          *)
(*                           async_batch_process_urls)                     *)
(*   - blocking requester   (safe_crawler.py: SafeRequester)               *)
(*   - cooperative requester(safe_crawler.py: AsyncSafeRequester,          *)
(*                           platform_strategies.py: PlatformStrategyManager)*)
(*   - result cache         (cache_manager.py: DocumentCache)              *)
(* Each component has its own next-state relation and specification; the   *)
(* variables of the other components keep their constructed values.        *)
(***************************************************************************)
EXTENDS Integers, Sequences, FiniteSets, TLC

VARIABLES
    \* ---- batch orchestrator (safe_crawler.py 441-489, 633-701) ----
    batchPc,            \* position of the batch call
    urls,               \* the urls argument
    processor_func,     \* behaviour of the processor_func argument, per unit
    max_concurrent,     \* the max_concurrent argument
    semaphore,          \* asyncio.Semaphore(max_concurrent)._value
    unitPc,             \* position of each process_single_url task
    results,            \* outcome of each task as gathered / results list
    processed_results,  \* the list the async batch returns
    batch_size,         \* the batch_size argument (sequential batch)
    seqI,               \* loop variable i of batch_process_urls
    seqJ,               \* position inside the current sub-batch
    batch_results,      \* batch_results of the current sub-batch
    \* ---- clock ----
    now,                \* time.time(), in seconds
    \* ---- PlatformStrategyManager (platform_strategies.py 85-225) ----
    strategies,         \* _strategies: platform name -> PlatformStrategy
    last_request_times, \* _last_request_times: platform name -> timestamp
    \* ---- AsyncSafeRequester (safe_crawler.py 498-630) ----
    aSemaphore,         \* self.semaphore._value
    aReq,               \* the get/head calls: position and local variables
    \* ---- SafeRequester (safe_crawler.py 20-413) ----
    max_retries,        \* self.max_retries (Retry total), -1 before construction
    last_request_time,  \* self.last_request_time: domain -> timestamp
    bCalls,             \* number of calls made to the requester so far
    bReq,               \* the current call: position and local variables
    \* ---- DocumentCache (cache_manager.py 19-339) ----
    max_cache_size,     \* self.max_cache_size_mb, in size units
    entries,            \* self.index["entries"], in insertion order
    files,              \* payload files of cache_dir: url_hash -> content, size
    cacheOps,           \* number of cache operations still to be called
    prevOp,             \* the operation before the last: call and return value
    lastOp,             \* the last operation: call, locals and return value
    \* ---- DocumentCache._get_url_hash as a function (lines 68-102) ----
    hash_in,            \* the URLs handed to _get_url_hash
    hash_out,           \* the keys it returned for them
    \* ---- PlatformStrategyManager.get_strategy as a function (165-174) ----
    resolve_url,        \* the URL handed to get_strategy
    resolved,           \* the strategy it returned
    \* ---- DocumentCache called from threads (cache_manager.py 127-221) ----
    tw,                 \* the calls of the worker threads: position and locals
    t0,                 \* index and payload files when the calls were made
    job                 \* the batch job of the caching batch processor

batchVars == <<batchPc, urls, processor_func, max_concurrent, semaphore, unitPc,
               results, processed_results, batch_size, seqI, seqJ, batch_results>>

asyncVars == <<now, strategies, last_request_times, aSemaphore, aReq>>

blockingVars == <<max_retries, last_request_time, bCalls, bReq>>

cacheVars == <<max_cache_size, entries, files, cacheOps, prevOp, lastOp>>

keyVars == <<hash_in, hash_out>>

resolveVars == <<resolve_url, resolved>>

threadVars == <<tw, t0>>

jobVars == <<job>>

vars == <<batchVars, asyncVars, blockingVars, cacheVars, keyVars, resolveVars,
          threadVars, jobVars>>

\* What an action of one component leaves alone: the other components.
BatchFrame ==
    UNCHANGED <<asyncVars, blockingVars, cacheVars, keyVars, resolveVars,
                threadVars, jobVars>>
AsyncFrame ==
    UNCHANGED <<batchVars, blockingVars, cacheVars, keyVars, resolveVars,
                threadVars, jobVars>>
BlockingFrame ==
    UNCHANGED <<batchVars, strategies, last_request_times, aSemaphore, aReq,
                cacheVars, keyVars, resolveVars, threadVars, jobVars>>
CacheFrame ==
    UNCHANGED <<batchVars, strategies, last_request_times, aSemaphore, aReq,
                blockingVars, keyVars, resolveVars, threadVars, jobVars>>
KeyFrame ==
    UNCHANGED <<batchVars, asyncVars, blockingVars, cacheVars, resolveVars,
                threadVars, jobVars>>
ResolveFrame ==
    UNCHANGED <<batchVars, now, aSemaphore, aReq, blockingVars, cacheVars,
                keyVars, threadVars, jobVars>>
ThreadFrame ==
    UNCHANGED <<batchVars, asyncVars, blockingVars, max_cache_size, cacheOps,
                prevOp, lastOp, keyVars, resolveVars, jobVars>>
JobFrame ==
    UNCHANGED <<batchVars, asyncVars, blockingVars, max_cache_size, cacheOps,
                prevOp, lastOp, keyVars, resolveVars, threadVars>>

----------------------------------------------------------------------------
\* Bounds of the model
MaxUrls == 3
MaxConcurrent == 2
MaxBatchSize == 2
MaxRequests == 3        \* calls made to a requester
AsyncMaxConcurrent == 2 \* max_concurrent of the AsyncSafeRequester
StartTime == 10         \* the clock at construction (time.time() is far from 0)
MaxRetries == 2         \* largest max_retries a SafeRequester is built with
MaxCalls == 2           \* calls made to the SafeRequester
MaxCacheOps == 3        \* operations called on a cache built empty
MaxQuery == 2           \* query parameters of a URL handed to _get_url_hash
MaxEntries == 8         \* entries of a cache built over a filled cache_dir
MaxEvictionOps == 1     \* operations called on a cache built over a filled one
Ttl == 2                \* cache_expiry_seconds of the cache of the model
Horizon == 3            \* seconds of clock the model follows

\* URLs handed to a batch
BatchUrls == {"u1", "u2"}

----------------------------------------------------------------------------
\* Small helpers
Range(f) == {f[x] : x \in DOMAIN f}

SeqsUpTo(S, n) == UNION {[1..k -> S] : k \in 0..n}

----------------------------------------------------------------------------
\* ======================= Batch orchestrator ==============================

\* What processor_func(url) does for a unit: returns a value or raises an
\* Exception (the class caught by "except Exception").
ProcOutcomes == {"ok", "raise"}

\* The value processor_func returns for unit i (opaque to the orchestrator).
UnitResult(i, us) == [status |-> "ok", url |-> us[i], unit |-> i]

\* The error record built at lines 475-479, 670-674 and 692-696.
ErrorRecord(u) == [status |-> "error", message |-> "e", url |-> u]

InitBatch ==
    /\ batchPc = "idle"
    /\ urls = <<>>
    /\ processor_func = <<>>
    /\ max_concurrent = 0
    /\ semaphore = 0
    /\ unitPc = <<>>
    /\ results = <<>>
    /\ processed_results = <<>>
    /\ batch_size = 0
    /\ seqI = 0
    /\ seqJ = 0
    /\ batch_results = <<>>

\* Mutant: a limiter that never reports itself full.
SemaphoreNeverLocked(value) == FALSE

\* A limiter that never hands out a slot.
SemaphoreAlwaysLocked(value) == TRUE

\* asyncio.Semaphore.locked(): no slot is free.
SemaphoreLocked(value) == value <= 0

\* process_single_url's try/except: the task's outcome for unit i.
\* A raise of processor_func is caught and turned into an error record.
ProcessSingleUrl(i, us, f) ==
    IF f[i] = "raise"
    THEN [kind |-> "value", value |-> ErrorRecord(us[i])]
    ELSE [kind |-> "value", value |-> UnitResult(i, us)]

\* Lines 689-698: an exception object gathered with return_exceptions=True
\* becomes an error record, any other result is kept.
ProcessGathered(i, us, r) ==
    IF r.kind = "exception" THEN ErrorRecord(us[i]) ELSE r.value

\* async_batch_process_urls is called: lines 651-652 and 679-685 create the
\* semaphore and one task per URL.
AsyncBatchCall(us, f, m) ==
    /\ BatchFrame
    /\ batchPc = "idle"
    /\ batchPc' = "gather"
    /\ urls' = us
    /\ processor_func' = f
    /\ max_concurrent' = m
    /\ semaphore' = m
    /\ unitPc' = [i \in 1..Len(us) |-> "waiting"]
    /\ results' = [i \in 1..Len(us) |-> [kind |-> "none"]]
    /\ UNCHANGED <<processed_results, batch_size, seqI, seqJ, batch_results>>

\* "async with semaphore" entry (line 656) of unit i.
UnitAcquire(i) ==
    /\ BatchFrame
    /\ batchPc = "gather"
    /\ unitPc[i] = "waiting"
    /\ ~SemaphoreLocked(semaphore)
    /\ semaphore' = semaphore - 1
    /\ unitPc' = [unitPc EXCEPT ![i] = "running"]
    /\ UNCHANGED <<batchPc, urls, processor_func, max_concurrent, results,
                   processed_results, batch_size, seqI, seqJ, batch_results>>

\* Unit i's processor_func finishes (lines 657-674) and the semaphore is
\* released on leaving the "async with" block.
UnitFinish(i) ==
    /\ BatchFrame
    /\ batchPc = "gather"
    /\ unitPc[i] = "running"
    /\ results' = [results EXCEPT ![i] = ProcessSingleUrl(i, urls, processor_func)]
    /\ semaphore' = semaphore + 1
    /\ unitPc' = [unitPc EXCEPT ![i] = "done"]
    /\ UNCHANGED <<batchPc, urls, processor_func, max_concurrent,
                   processed_results, batch_size, seqI, seqJ, batch_results>>

\* asyncio.gather completes once every task has finished; lines 687-701
\* build and return processed_results.
AsyncBatchReturn ==
    /\ BatchFrame
    /\ batchPc = "gather"
    /\ \A i \in 1..Len(urls) : unitPc[i] = "done"
    /\ processed_results' =
           [i \in 1..Len(urls) |-> ProcessGathered(i, urls, results[i])]
    /\ batchPc' = "returned"
    /\ UNCHANGED <<urls, processor_func, max_concurrent, semaphore, unitPc,
                   results, batch_size, seqI, seqJ, batch_results>>

\* ---- sequential batch_process_urls ----

\* batch_process_urls is called: lines 456-461.
SeqBatchCall(us, f, b) ==
    /\ BatchFrame
    /\ batchPc = "idle"
    /\ batchPc' = "seq"
    /\ urls' = us
    /\ processor_func' = f
    /\ batch_size' = b
    /\ results' = <<>>
    /\ batch_results' = <<>>
    /\ seqI' = 0
    /\ seqJ' = 0
    /\ UNCHANGED <<max_concurrent, semaphore, unitPc, processed_results>>

\* Mutant: no try/except around processor_func(url), a raise ends the call.
SeqUnitStepNoCatch(k, us, f, br) ==
    IF f[k] = "raise"
    THEN [pc |-> "aborted", batch_results |-> br]
    ELSE [pc |-> "seq", batch_results |-> Append(br, UnitResult(k, us))]

\* A loop that puts each outcome in front of the earlier ones.
SeqUnitStepPrepend(k, us, f, br) ==
    IF f[k] = "raise"
    THEN [pc |-> "seq", batch_results |-> <<ErrorRecord(us[k])>> \o br]
    ELSE [pc |-> "seq", batch_results |-> <<UnitResult(k, us)>> \o br]

\* Lines 469-479: the try/except around processor_func(url); the state of
\* the call after the unit at 1-based position k of urls has run.
SeqUnitStep(k, us, f, br) ==
    IF f[k] = "raise"
    THEN [pc |-> "seq", batch_results |-> Append(br, ErrorRecord(us[k]))]
    ELSE [pc |-> "seq", batch_results |-> Append(br, UnitResult(k, us))]

\* One iteration of the inner loop (line 468) over batch_urls = urls[i:i+batch_size].
SeqUnit ==
    /\ BatchFrame
    /\ batchPc = "seq"
    /\ seqI < Len(urls)
    /\ seqJ < batch_size /\ seqI + seqJ < Len(urls)
    /\ LET step == SeqUnitStep(seqI + seqJ + 1, urls, processor_func, batch_results)
       IN /\ batchPc' = step.pc
          /\ batch_results' = step.batch_results
    /\ seqJ' = seqJ + 1
    /\ UNCHANGED <<urls, processor_func, max_concurrent, semaphore, unitPc,
                   results, processed_results, batch_size, seqI>>

\* End of a sub-batch: results.extend(batch_results) (line 481), the pause
\* between sub-batches (484-486) and the next value of i (line 461).
SeqEndSubBatch ==
    /\ BatchFrame
    /\ batchPc = "seq"
    /\ seqI < Len(urls)
    /\ (seqJ = batch_size \/ seqI + seqJ = Len(urls))
    /\ results' = results \o batch_results
    /\ batch_results' = <<>>
    /\ seqI' = seqI + batch_size
    /\ seqJ' = 0
    /\ UNCHANGED <<batchPc, urls, processor_func, max_concurrent, semaphore,
                   unitPc, processed_results, batch_size>>

\* Line 489: return results.
SeqBatchReturn ==
    /\ BatchFrame
    /\ batchPc = "seq"
    /\ seqI >= Len(urls)
    /\ processed_results' = results
    /\ batchPc' = "returned"
    /\ UNCHANGED <<urls, processor_func, max_concurrent, semaphore, unitPc,
                   results, batch_size, seqI, seqJ, batch_results>>

\* The steps of async_batch_process_urls alone.
NextAsyncBatch ==
    \/ \E us \in SeqsUpTo(BatchUrls, MaxUrls), m \in 1..MaxConcurrent :
         \E f \in [1..Len(us) -> ProcOutcomes] : AsyncBatchCall(us, f, m)
    \/ \E i \in DOMAIN unitPc : UnitAcquire(i)
    \/ \E i \in DOMAIN unitPc : UnitFinish(i)
    \/ AsyncBatchReturn

\* The event loop runs every task that can run: a waiting unit gets a free
\* slot, a running unit whose processor_func terminates finishes, and the
\* gather whose tasks are all done returns.
FairAsyncBatch ==
    /\ WF_vars(\E i \in DOMAIN unitPc : UnitAcquire(i))
    /\ WF_vars(\E i \in DOMAIN unitPc : UnitFinish(i))
    /\ WF_vars(AsyncBatchReturn)

NextBatch ==
    \/ \E us \in SeqsUpTo(BatchUrls, MaxUrls), m \in 1..MaxConcurrent :
         \E f \in [1..Len(us) -> ProcOutcomes] : AsyncBatchCall(us, f, m)
    \/ \E i \in DOMAIN unitPc : UnitAcquire(i)
    \/ \E i \in DOMAIN unitPc : UnitFinish(i)
    \/ AsyncBatchReturn
    \/ \E us \in SeqsUpTo(BatchUrls, MaxUrls), b \in 1..MaxBatchSize :
         \E f \in [1..Len(us) -> ProcOutcomes] : SeqBatchCall(us, f, b)
    \/ SeqUnit
    \/ SeqEndSubBatch
    \/ SeqBatchReturn


----------------------------------------------------------------------------
\* ============================== URLs =====================================

\* A URL as urlparse splits it; query is the list of key=value pairs.
Url(scheme, netloc, path, query, fragment) ==
    [scheme |-> scheme, netloc |-> netloc, path |-> path,
     query |-> query, fragment |-> fragment]

\* Python's "pat in text" on the texts the model uses.
Occurs(pat, text) ==
    CASE pat = "douyin.com" ->
           text \in {"www.douyin.com", "v.douyin.com", "www.iesdouyin.com"}
      [] pat = "iesdouyin.com" -> text \in {"www.iesdouyin.com"}
      [] pat = "xiaohongshu.com" -> text \in {"www.xiaohongshu.com"}
      [] pat = "xhs.com" -> text \in {"www.xhs.com"}
      [] pat = "zhihu.com" ->
           text \in {"www.zhihu.com", "zhuanlan.zhihu.com", "/zhihu.com"}
      [] pat = "captcha" -> text \in {"<title>captcha</title>"}
      [] OTHER -> FALSE

\* str.lower() on the texts the model uses.
Lower(text) ==
    CASE text = "WWW.ZHIHU.COM" -> "www.zhihu.com"
      [] OTHER -> text

\* "pat in url_lower" (lines 154-161): the pattern occurs somewhere in the
\* lower-cased text of the URL.
OccursInUrl(pat, url) ==
    Occurs(pat, Lower(url.netloc)) \/ Occurs(pat, Lower(url.path))

----------------------------------------------------------------------------
\* ===================== PlatformStrategyManager ===========================

Platforms == {"douyin", "xiaohongshu", "zhihu", "default"}

\* _init_default_strategies: the four registered strategies.
DefaultStrategies ==
    [p \in Platforms |->
       CASE p = "douyin" ->
              [name |-> "douyin", min_interval |-> 6, max_interval |-> 10,
               max_retries |-> 2, max_concurrent |-> 2]
         [] p = "xiaohongshu" ->
              [name |-> "xiaohongshu", min_interval |-> 4, max_interval |-> 7,
               max_retries |-> 3, max_concurrent |-> 2]
         [] p = "zhihu" ->
              [name |-> "zhihu", min_interval |-> 2, max_interval |-> 4,
               max_retries |-> 3, max_concurrent |-> 3]
         [] OTHER ->
              [name |-> "default", min_interval |-> 3, max_interval |-> 5,
               max_retries |-> 3, max_concurrent |-> 2]]

\* A detection that looks at the host of the URL only.
DetectPlatformByHost(url) ==
    IF Occurs("douyin.com", url.netloc) \/ Occurs("iesdouyin.com", url.netloc)
    THEN "douyin"
    ELSE IF Occurs("xiaohongshu.com", url.netloc) \/ Occurs("xhs.com", url.netloc)
    THEN "xiaohongshu"
    ELSE IF Occurs("zhihu.com", url.netloc)
    THEN "zhihu"
    ELSE "default"

detect_platform(url) ==
    IF OccursInUrl("douyin.com", url) \/ OccursInUrl("iesdouyin.com", url)
    THEN "douyin"
    ELSE IF OccursInUrl("xiaohongshu.com", url) \/ OccursInUrl("xhs.com", url)
    THEN "xiaohongshu"
    ELSE IF OccursInUrl("zhihu.com", url)
    THEN "zhihu"
    ELSE "default"

\* get_strategy called with a platform name (line 179).
get_strategy(platform) ==
    IF platform \in DOMAIN strategies
    THEN strategies[platform]
    ELSE strategies["default"]

\* get_strategy called with a URL (lines 165-174): the URL is no key of the
\* registry, so its platform is detected first.
get_strategy_of_url(url) == get_strategy(detect_platform(url))

\* get_request_interval: random.uniform(min_interval, max_interval), drawn
\* here from the whole seconds of the range.
RequestIntervals(strategy) == strategy.min_interval .. strategy.max_interval

\* self._last_request_times.get(platform, 0)
\* The latest timestamp of any platform.
LastTimeOfAny(platform) ==
    IF last_request_times = <<>>
    THEN 0
    ELSE CHOOSE v \in {last_request_times[p] : p \in DOMAIN last_request_times} :
           \A p \in DOMAIN last_request_times : last_request_times[p] <= v

LastTime(platform) ==
    IF platform \in DOMAIN last_request_times
    THEN last_request_times[platform]
    ELSE 0

\* self._last_request_times[platform] = time.time()
SetLastTime(platform, t) ==
    [p \in (DOMAIN last_request_times) \cup {platform} |->
       IF p = platform THEN t ELSE last_request_times[p]]

----------------------------------------------------------------------------
\* ======================== AsyncSafeRequester =============================

\* URLs requested through the cooperative requester.
AsyncUrls ==
    { Url("https", "www.zhihu.com", "/question/1", <<>>, ""),
      Url("https", "zhuanlan.zhihu.com", "/p/2", <<>>, ""),
      Url("https", "a.example", "/x", <<>>, "") }

\* The largest interval a registered strategy asks for.
MaxInterval == 10

\* What the network does with one aiohttp request: a response with a status,
\* asyncio.TimeoutError, or an aiohttp.ClientError.
\* A response: its status_code and its text.
ResponseWith(status, text) ==
    [kind |-> "response", status |-> status, text |-> text]
Response(status) == ResponseWith(status, "<html>content</html>")
NetError(error) == [kind |-> "error", error |-> error]
AsyncNetOutcomes ==
    {Response(200), Response(503), NetError("timeout")}

\* A call of get: its position, its url, the local variables last_time of
\* wait_if_needed and the end of its sleep, the time its network call was
\* sent (0: not sent) and what it returned.
IdleRequest ==
    [pc |-> "idle", url |-> "none", last_time |-> 0, wake_at |-> 0,
     sent_at |-> 0, result |-> [kind |-> "pending"]]

InitAsync ==
    /\ now = StartTime
    /\ strategies = DefaultStrategies
    /\ last_request_times = <<>>
    /\ aSemaphore = AsyncMaxConcurrent
    /\ aReq = [t \in 1..MaxRequests |-> IdleRequest]

\* The clock advances.
Tick ==
    /\ now < StartTime + Horizon
    /\ now' = now + 1

\* Time passes while the cooperative requester is in use.
AsyncTick ==
    /\ AsyncFrame
    /\ Tick
    /\ UNCHANGED <<strategies, last_request_times, aSemaphore, aReq>>

\* AsyncSafeRequester.get is called with url (line 553: the call waits for
\* the limiter).  Calls are numbered in the order they are made.
AsyncGetCall(t, url) ==
    /\ AsyncFrame
    /\ aReq[t].pc = "idle"
    /\ \A u \in 1..(t - 1) : aReq[u].pc # "idle"
    /\ aReq' = [aReq EXCEPT ![t] = [@ EXCEPT !.pc = "limiter", !.url = url]]
    /\ UNCHANGED <<now, strategies, last_request_times, aSemaphore>>

\* Request t gets its limiter slot (line 553) and runs wait_if_needed up to
\* its first suspension (lines 178-190): either it has to sleep, or it sets
\* the timestamp (line 192) and sends the request (line 569) at once.
AsyncAcquireAndCheck(t, required_interval) ==
    /\ AsyncFrame
    /\ aReq[t].pc = "limiter"
    /\ ~SemaphoreLocked(aSemaphore)
    /\ aSemaphore' = aSemaphore - 1
    /\ LET url == aReq[t].url
           platform == detect_platform(url)
           strategy == get_strategy(platform)
           last_time == LastTime(platform)
           current_time == now
           time_since_last == current_time - last_time
       IN /\ required_interval \in RequestIntervals(strategy)
          /\ IF time_since_last < required_interval
             THEN /\ aReq' = [aReq EXCEPT ![t] =
                        [@ EXCEPT !.pc = "pacing", !.last_time = last_time,
                                  !.wake_at = now + (required_interval - time_since_last)]]
                  /\ UNCHANGED last_request_times
             ELSE /\ aReq' = [aReq EXCEPT ![t] =
                        [@ EXCEPT !.pc = "network", !.last_time = last_time,
                                  !.sent_at = now]]
                  /\ last_request_times' = SetLastTime(platform, now)
    /\ UNCHANGED <<now, strategies>>

\* asyncio.sleep(wait_time) of request t is over (line 190): the timestamp
\* is set (line 192) and the request is sent (line 569).
AsyncWake(t) ==
    /\ AsyncFrame
    /\ aReq[t].pc = "pacing"
    /\ now >= aReq[t].wake_at
    /\ last_request_times' = SetLastTime(detect_platform(aReq[t].url), now)
    /\ aReq' = [aReq EXCEPT ![t] = [@ EXCEPT !.pc = "network", !.sent_at = now]]
    /\ UNCHANGED <<now, strategies, aSemaphore>>

\* What AsyncSafeRequester.get returns for a network outcome (lines 566-587):
\* the response whatever its status, None for any error.
AsyncGetResult(outcome) ==
    IF outcome.kind = "error"
    THEN [kind |-> "none"]
    ELSE outcome

\* An exit on an error that keeps the slot.
AsyncNetDoneKeepsSlotOnError(t, outcome) ==
    /\ AsyncFrame
    /\ aReq[t].pc = "network"
    /\ aReq' = [aReq EXCEPT ![t] =
                  [@ EXCEPT !.pc = "done", !.last_time = 0, !.wake_at = 0,
                            !.result = AsyncGetResult(outcome)]]
    /\ aSemaphore' = IF outcome.kind = "error" THEN aSemaphore ELSE aSemaphore + 1
    /\ UNCHANGED <<now, strategies, last_request_times>>

\* The network call of request t ends; get returns and the limiter slot is
\* released on leaving "async with self.semaphore".
AsyncNetDone(t, outcome) ==
    /\ AsyncFrame
    /\ aReq[t].pc = "network"
    /\ aReq' = [aReq EXCEPT ![t] =
                  [@ EXCEPT !.pc = "done", !.last_time = 0, !.wake_at = 0,
                            !.result = AsyncGetResult(outcome)]]
    /\ aSemaphore' = aSemaphore + 1
    /\ UNCHANGED <<now, strategies, last_request_times>>

\* A cancellation that leaves the "async with" block without releasing.
AsyncCancelKeepsSlot(t) ==
    /\ AsyncFrame
    /\ aReq[t].pc \in {"limiter", "pacing"}
    /\ aReq' = [aReq EXCEPT ![t].pc = "cancelled"]
    /\ UNCHANGED <<now, strategies, last_request_times, aSemaphore>>

\* The task of request t is cancelled while it is suspended: in
\* semaphore.acquire() (line 553) it holds no slot; in asyncio.sleep of
\* wait_if_needed (platform_strategies.py line 190) the CancelledError skips
\* line 192 and leaves "async with self.semaphore", which releases the slot.
AsyncCancel(t) ==
    /\ AsyncFrame
    /\ aReq[t].pc \in {"limiter", "pacing"}
    /\ aReq' = [aReq EXCEPT ![t].pc = "cancelled"]
    /\ aSemaphore' = IF aReq[t].pc = "pacing" THEN aSemaphore + 1 ELSE aSemaphore
    /\ UNCHANGED <<now, strategies, last_request_times>>

NextAsync ==
    \/ AsyncTick
    \/ \E t \in 1..MaxRequests, url \in AsyncUrls : AsyncGetCall(t, url)
    \/ \E t \in 1..MaxRequests, r \in 0..MaxInterval : AsyncAcquireAndCheck(t, r)
    \/ \E t \in 1..MaxRequests : AsyncWake(t)
    \/ \E t \in 1..MaxRequests, o \in AsyncNetOutcomes : AsyncNetDone(t, o)


----------------------------------------------------------------------------
\* =========================== SafeRequester ===============================

\* min_delay of the global requester (get_safe_requester).
MinDelay == 2

\* status_forcelist of the Retry strategy (line 93).
StatusForcelist == {429, 500, 502, 503, 504, 403}

\* URLs requested through the blocking requester.
BlockingUrls ==
    { Url("https", "www.douyin.com", "/video/1", <<>>, ""),
      Url("https", "a.example", "/x", <<>>, "") }

\* The entry points that send a request.
Methods == {"get", "head", "get_with_enhanced_protection"}

\* What the network does with one attempt: a response with a status, a
\* timeout, or a connection error.
\* A 200 response whose body is a verification page.
ChallengePage == ResponseWith(200, "<title>captcha</title>")

NetOutcomes ==
    {Response(200), ChallengePage, Response(403), Response(404), Response(503),
     NetError("timeout"), NetError("connection")}

\* captcha_indicators of _is_captcha_page (lines 397-407), the ASCII ones.
captcha_indicators ==
    {"captcha", "security check", "verify", "slide to verify"}

\* SafeRequester._is_captcha_page (lines 391-409); no entry point calls it.
_is_captcha_page(response) ==
    /\ response.kind = "response"
    /\ response.status = 200
    /\ \E indicator \in captcha_indicators : Occurs(indicator, response.text)

\* _get_domain: urlparse(url).netloc
_get_domain(url) == url.netloc

NoCall ==
    [pc |-> "idle", method |-> "none", url |-> "none", wake_at |-> 0,
     total |-> 0, history |-> <<>>, result |-> [kind |-> "pending"]]

InitBlocking ==
    /\ max_retries = -1
    /\ last_request_time = <<>>
    /\ bCalls = 0
    /\ bReq = NoCall

\* SafeRequester.__init__(min_delay, max_retries): lines 31-33 and 90-101.
SafeRequesterInit(r) ==
    /\ BlockingFrame
    /\ max_retries = -1
    /\ max_retries' = r
    /\ last_request_time' = <<>>
    /\ UNCHANGED <<now, bCalls, bReq>>

\* Time passes while the blocking requester is in use (sleeps of
\* _wait_if_needed and of the Retry backoff, network latency).
BlockingTick ==
    /\ BlockingFrame
    /\ max_retries >= 0
    /\ Tick
    /\ UNCHANGED blockingVars

\* _wait_if_needed (lines 174-181): how long the call has to sleep.
WaitTime(domain) ==
    IF domain \in DOMAIN last_request_time
    THEN LET elapsed == now - last_request_time[domain]
         IN IF elapsed < MinDelay THEN MinDelay - elapsed ELSE 0
    ELSE 0

\* get / head / get_with_enhanced_protection is called with url: the call
\* runs _wait_if_needed(domain) (lines 194-195, 254-255, 340-341) and either
\* sleeps or goes on to session.get / session.head with a fresh Retry.
BlockingCall(method, url) ==
    /\ BlockingFrame
    /\ max_retries >= 0
    /\ bReq.pc \in {"idle", "returned", "raised"}
    /\ bCalls < MaxCalls
    /\ bCalls' = bCalls + 1
    /\ LET wait_time == WaitTime(_get_domain(url))
       IN bReq' = [pc |-> IF wait_time > 0 THEN "sleeping" ELSE "sending",
                   method |-> method, url |-> url, wake_at |-> now + wait_time,
                   total |-> max_retries, history |-> <<>>,
                   result |-> [kind |-> "pending"]]
    /\ UNCHANGED <<now, max_retries, last_request_time>>

\* time.sleep(wait_time) is over (line 181).
BlockingWake ==
    /\ BlockingFrame
    /\ bReq.pc = "sleeping"
    /\ now >= bReq.wake_at
    /\ bReq' = [bReq EXCEPT !.pc = "sending"]
    /\ UNCHANGED <<now, max_retries, last_request_time, bCalls>>

\* A Retry that repeats every 4xx and 5xx status.
IsRetryEveryError(outcome) ==
    outcome.kind = "response" /\ outcome.status >= 400

\* urllib3 Retry.is_retry for the strategy of lines 90-96: a status of the
\* forcelist is retried.
IsRetry(outcome) ==
    outcome.kind = "response" /\ outcome.status \in StatusForcelist

\* Mutant: the Retry gives up one attempt early.
MayRetryOneShort(total) == total - 1 > 0

\* Retry.increment / is_exhausted: the attempt just made may be repeated
\* when the remaining total, once decremented, is not negative.
MayRetry(total) == total - 1 >= 0

\* What session.get / session.head ends with when the attempt with this
\* outcome is the last one: the response (raise_on_status=False returns the
\* last response of an exhausted Retry) or a raised RequestException.
SessionResult(outcome) ==
    IF outcome.kind = "response"
    THEN outcome
    ELSE [kind |-> "exception", error |-> outcome.error]

\* Mutant: every entry point re-raises the exception of the session call.
CallResultReraise(method, sr) ==
    IF sr.kind = "response"
    THEN sr
    ELSE [kind |-> "raised", error |-> sr.error]

\* What the entry point does with the end of the session call: get and head
\* return the response whatever its status (lines 216-230, 267-268) and
\* return None for every exception (232-241, 270-279);
\* get_with_enhanced_protection returns the response and re-raises the
\* exception (lines 355-361).
CallResult(method, sr) ==
    IF sr.kind = "response"
    THEN sr
    ELSE IF method = "get_with_enhanced_protection"
         THEN [kind |-> "raised", error |-> sr.error]
         ELSE [kind |-> "none"]

\* One attempt of the session call gets its outcome.  A retried attempt
\* consumes one of the Retry total and is kept in its history; the last
\* attempt ends the call: with a response the domain's timestamp is set
\* (lines 213, 265, 357), with an exception it is not.
BlockingAttempt(outcome) ==
    /\ BlockingFrame
    /\ bReq.pc = "sending"
    /\ LET retried == (IsRetry(outcome) \/ outcome.kind = "error")
                      /\ MayRetry(bReq.total)
           sr == SessionResult(outcome)
           res == CallResult(bReq.method, sr)
       IN IF retried
          THEN /\ bReq' = [bReq EXCEPT !.total = @ - 1,
                                       !.history = Append(@, outcome)]
               /\ UNCHANGED last_request_time
          ELSE /\ bReq' = [bReq EXCEPT
                              !.pc = IF res.kind = "raised" THEN "raised"
                                     ELSE "returned",
                              !.history = Append(@, outcome),
                              !.result = res]
               /\ last_request_time' =
                    IF sr.kind = "response"
                    THEN [d \in (DOMAIN last_request_time) \cup {_get_domain(bReq.url)} |->
                            IF d = _get_domain(bReq.url) THEN now
                            ELSE last_request_time[d]]
                    ELSE last_request_time
    /\ UNCHANGED <<now, max_retries, bCalls>>

NextBlocking ==
    \/ \E r \in 0..MaxRetries : SafeRequesterInit(r)
    \/ BlockingTick
    \/ \E m \in Methods, url \in BlockingUrls : BlockingCall(m, url)
    \/ BlockingWake
    \/ \E o \in NetOutcomes : BlockingAttempt(o)


----------------------------------------------------------------------------
\* ============================ DocumentCache ==============================

\* Query parameters _normalize_url removes for douyin hosts (line 87).
VolatileParams == {"timestamp", "ts", "_t", "time"}

\* parse_qs(parsed.query): blank values are dropped and the values of one
\* key are grouped, keys in order of first appearance; urlencode(doseq=True)
\* writes them back key by key.
RECURSIVE KeysInOrder(_)
KeysInOrder(q) ==
    IF q = <<>> THEN <<>>
    ELSE LET rest == KeysInOrder(SubSeq(q, 1, Len(q) - 1))
             k == q[Len(q)][1]
         IN IF \E i \in DOMAIN rest : rest[i] = k THEN rest ELSE Append(rest, k)

RECURSIVE Concat(_)
Concat(ss) == IF ss = <<>> THEN <<>> ELSE Head(ss) \o Concat(Tail(ss))

ParseQsUrlencode(query, dropped) ==
    LET nonblank == SelectSeq(query, LAMBDA kv : kv[2] # "")
        keys == SelectSeq(KeysInOrder(nonblank), LAMBDA k : k \notin dropped)
    IN Concat([i \in DOMAIN keys |->
                 SelectSeq(nonblank, LAMBDA kv : kv[1] = keys[i])])

\* A normalization that leaves every query as it is.
NormalizeUrlVerbatim(url) ==
    Url(url.scheme, url.netloc, url.path, url.query, "")

\* DocumentCache._normalize_url (lines 74-102).
_normalize_url(url) ==
    IF Occurs("douyin.com", url.netloc) \/ Occurs("iesdouyin.com", url.netloc)
    THEN Url(url.scheme, url.netloc, url.path,
             ParseQsUrlencode(url.query, VolatileParams), "")
    ELSE Url(url.scheme, url.netloc, url.path, url.query, "")

\* DocumentCache._get_url_hash: the MD5 digest of the normalized URL, kept
\* here as the text that is digested.
_get_url_hash(url) == <<"md5", _normalize_url(url)>>

\* Results handed to save_result: a JSON object, one that holds a tuple
\* (written as a JSON array), and one json.dump cannot serialize.
Result(body) == [body |-> body]
Results == {Result("plain"), Result("with_tuple"), Result("unserializable")}

\* json.dump of a result, and json.load of what was written.
JsonDump(result) ==
    IF result = Result("with_tuple") THEN <<"json", Result("with_list")>>
    ELSE <<"json", result>>
JsonLoad(text) == text[2]

\* What an operation returns: None, or a value.
None == [kind |-> "None"]
Value(v) == [kind |-> "value", value |-> v]

\* What a payload file holds: a JSON document, or the part of one written
\* before json.dump failed.
JsonFile(data, size) == [readable |-> TRUE, data |-> data, size |-> size]
PartialFile(size) == [readable |-> FALSE, size |-> size]

\* st_size of the file written for a result, and of the part of a file
\* written before json.dump fails, in size units.
FileSize(result) == IF result = Result("with_tuple") THEN 2 ELSE 1
PartialFileSize == 1

\* The state of the cache: index entries and payload files.
CacheState(es, fs) == [entries |-> es, files |-> fs]

\* cache_data of save_result (lines 175-180) as read back by json.load.
CacheData(url, cached_at, result) ==
    [url |-> url, url_hash |-> _get_url_hash(url), cached_at |-> cached_at,
     result |-> JsonLoad(JsonDump(result))]

\* The index entry of save_result (lines 187-192).
IndexEntry(url, cached_at, size) ==
    [url |-> url, url_hash |-> _get_url_hash(url), cached_at |-> cached_at,
     file_size |-> size]

HasEntry(es, h) == \E i \in DOMAIN es : es[i].url_hash = h
EntryOf(es, h) == es[CHOOSE i \in DOMAIN es : es[i].url_hash = h]

\* self.index["entries"][url_hash] = entry: a dict keeps the place of a key
\* it already holds and appends a new key.
PutEntry(es, e) ==
    IF HasEntry(es, e.url_hash)
    THEN [i \in DOMAIN es |-> IF es[i].url_hash = e.url_hash THEN e ELSE es[i]]
    ELSE Append(es, e)

WithoutFile(fs, h) == [k \in (DOMAIN fs) \ {h} |-> fs[k]]
WithFile(fs, h, f) == [k \in (DOMAIN fs) \cup {h} |-> IF k = h THEN f ELSE fs[k]]

\* A removal that deletes the payload file and leaves the index as it is.
RemoveFileOnly(st, h) == CacheState(st.entries, WithoutFile(st.files, h))

\* DocumentCache._remove_cache_entry (lines 207-221).
_remove_cache_entry(st, h) ==
    CacheState(SelectSeq(st.entries, LAMBDA e : e.url_hash # h),
               WithoutFile(st.files, h))

RECURSIVE RemoveAll(_, _)
RemoveAll(st, hs) ==
    IF hs = <<>> THEN st
    ELSE RemoveAll(_remove_cache_entry(st, Head(hs)), Tail(hs))

\* DocumentCache._get_cache_size_mb (lines 223-233): the sizes of all
\* payload files of the directory.
RECURSIVE SumSizes(_, _)
SumSizes(fs, ks) ==
    IF ks = {} THEN 0
    ELSE LET k == CHOOSE x \in ks : TRUE
         IN fs[k].size + SumSizes(fs, ks \ {k})

_get_cache_size(st) == SumSizes(st.files, DOMAIN st.files)

\* entries.sort(key=cached_at) (line 248): a stable sort, oldest first.
RECURSIVE InsertSorted(_, _)
InsertSorted(sorted, e) ==
    IF sorted = <<>> THEN <<e>>
    ELSE IF sorted[Len(sorted)].cached_at <= e.cached_at
         THEN Append(sorted, e)
         ELSE Append(InsertSorted(SubSeq(sorted, 1, Len(sorted) - 1), e),
                     sorted[Len(sorted)])

RECURSIVE SortByCachedAt(_)
SortByCachedAt(es) ==
    IF es = <<>> THEN <<>>
    ELSE InsertSorted(SortByCachedAt(SubSeq(es, 1, Len(es) - 1)), es[Len(es)])

\* A cleanup_count without the floor of one.
CleanupCountQuarter(n) == n \div 4

\* cleanup_count of _cleanup_old_entries (line 251).
CleanupCount(n) == IF n \div 4 >= 1 THEN n \div 4 ELSE 1

\* DocumentCache._cleanup_old_entries (lines 243-258).
_cleanup_old_entries(st) ==
    LET sorted == SortByCachedAt(st.entries)
        doomed == SubSeq(sorted, 1, CleanupCount(Len(sorted)))
    IN RemoveAll(st, [i \in DOMAIN doomed |-> doomed[i].url_hash])

\* DocumentCache._cleanup_if_needed (lines 235-241).
_cleanup_if_needed(st, budget) ==
    IF _get_cache_size(st) > budget THEN _cleanup_old_entries(st) ELSE st

\* A time test that already fails at the lifetime itself.
ExpiredAtTtl(cached_at, current_time) == current_time - cached_at >= Ttl

\* The time test of _is_cache_valid and cleanup_expired (lines 117, 272).
Expired(cached_at, current_time) == current_time - cached_at > Ttl

\* URLs given to a cache built empty: two douyin URLs that differ in ts only
\* and a URL of another host.
CacheUrls ==
    { Url("https", "www.douyin.com", "/video/1", << <<"ts", "1">> >>, ""),
      Url("https", "www.douyin.com", "/video/1", << <<"ts", "2">> >>, ""),
      Url("https", "a.example", "/x", <<>>, "") }

NoOp == [op |-> "none"]

\* DocumentCache.__init__ over an empty cache_dir, with a budget.
InitEmptyCache(budget) ==
    /\ max_cache_size = budget
    /\ entries = <<>>
    /\ files = <<>>
    /\ cacheOps = MaxCacheOps
    /\ prevOp = NoOp
    /\ lastOp = NoOp

\* max_cache_size_mb of a cache built empty: one payload of the small size,
\* or one of the large size.
Budgets == {1, 2}

InitCache == \E budget \in Budgets : InitEmptyCache(budget)

\* Time passes between two cache operations. The clock is followed only
\* while the index holds entries: an empty index has no age to compare.
CacheTick ==
    /\ CacheFrame
    /\ entries # <<>>
    /\ Tick
    /\ UNCHANGED cacheVars

\* The bookkeeping every cache operation shares.
CacheOpDone(op) ==
    /\ CacheFrame
    /\ cacheOps > 0
    /\ cacheOps' = cacheOps - 1
    /\ prevOp' = lastOp
    /\ lastOp' = op
    /\ UNCHANGED <<now, max_cache_size>>

\* DocumentCache.save_result (lines 159-205): the state it leaves and the
\* value it returns.
SaveResultOutcome(st, url, result, budget, current_time) ==
    LET h == _get_url_hash(url)
    IN IF result = Result("unserializable")
       THEN LET partial ==
                  CacheState(st.entries,
                             WithFile(st.files, h, PartialFile(PartialFileSize)))
            IN [st |-> partial, ret |-> FALSE, written |-> partial]
       ELSE LET written ==
                  CacheState(
                    PutEntry(st.entries,
                             IndexEntry(url, current_time, FileSize(result))),
                    WithFile(st.files, h,
                             JsonFile(CacheData(url, current_time, result),
                                      FileSize(result))))
            IN [st |-> _cleanup_if_needed(written, budget), ret |-> TRUE,
                written |-> written]

save_result(url, result) ==
    LET out == SaveResultOutcome(CacheState(entries, files), url, result,
                                 max_cache_size, now)
    IN /\ entries' = out.st.entries
       /\ files' = out.st.files
       /\ CacheOpDone([op |-> "save", url |-> url, url_hash |-> _get_url_hash(url),
                       at |-> now, result |-> result, ret |-> out.ret,
                       written |-> out.written])

\* A lookup that never finds an entry.
GetCachedNever(st, url, current_time) == [st |-> st, ret |-> None]

\* DocumentCache.get_cached_result (lines 127-157): the state it leaves and
\* the value it returns.
GetCachedOutcome(st, url, current_time) ==
    LET h == _get_url_hash(url)
    IN IF ~HasEntry(st.entries, h)
       THEN [st |-> st, ret |-> None]
       ELSE IF \/ Expired(EntryOf(st.entries, h).cached_at, current_time)
               \/ h \notin DOMAIN st.files
            THEN [st |-> _remove_cache_entry(st, h), ret |-> None]
            ELSE IF ~st.files[h].readable
                 THEN [st |-> _remove_cache_entry(st, h), ret |-> None]
                 ELSE [st |-> st, ret |-> Value(st.files[h].data)]

get_cached_result(url) ==
    LET h == _get_url_hash(url)
        st == CacheState(entries, files)
        out == GetCachedOutcome(st, url, now)
        had == HasEntry(entries, h)
    IN /\ entries' = out.st.entries
       /\ files' = out.st.files
       /\ CacheOpDone([op |-> "get", url |-> url, url_hash |-> h, at |-> now,
                       had_entry |-> had, file_exists |-> h \in DOMAIN files,
                       age |-> IF had THEN now - EntryOf(entries, h).cached_at ELSE 0,
                       retrievable |-> /\ h \in DOMAIN files
                                       /\ files[h].readable,
                       ret |-> out.ret])

\* DocumentCache.cleanup_expired (lines 260-281).
cleanup_expired ==
    LET expired == SelectSeq(entries, LAMBDA e : Expired(e.cached_at, now))
        out == RemoveAll(CacheState(entries, files),
                         [i \in DOMAIN expired |-> expired[i].url_hash])
    IN /\ entries' = out.entries
       /\ files' = out.files
       /\ CacheOpDone([op |-> "cleanup_expired", ret |-> Len(expired)])

\* DocumentCache.clear_all (lines 283-301).
clear_all ==
    /\ entries' = <<>>
    /\ files' = <<>>
    /\ CacheOpDone([op |-> "clear_all", ret |-> None])

NextCache ==
    \/ CacheTick
    \/ \E url \in CacheUrls, result \in Results : save_result(url, result)
    \/ \E url \in CacheUrls : get_cached_result(url)
    \/ cleanup_expired
    \/ clear_all

\* A payload file of cache_dir is deleted from outside the cache.
PayloadLost(h) ==
    /\ CacheFrame
    /\ h \in DOMAIN files
    /\ files' = WithoutFile(files, h)
    /\ UNCHANGED <<now, max_cache_size, entries, cacheOps, prevOp, lastOp>>

\* A cache whose directory is also touched from outside, over a stretch of
\* time too short for an entry to age.
NextDamagedCache ==
    \/ \E url \in CacheUrls, result \in Results : save_result(url, result)
    \/ \E url \in CacheUrls : get_cached_result(url)
    \/ \E h \in DOMAIN files : PayloadLost(h)

\* A cache_dir filled by earlier runs: the URLs of its entries.
PathNames == <<"/1", "/2", "/3", "/4", "/5", "/6", "/7", "/8", "/9", "/10",
               "/11", "/12">>
PersistedUrl(i) == Url("https", "a.example", PathNames[i], <<>>, "")

\* DocumentCache.__init__ over a cache_dir that earlier save_result calls
\* filled with n entries within the budget (_load_index, lines 42-54).
InitEviction ==
    \E n \in 0..MaxEntries :
      \E cached_at \in [1..n -> {StartTime - 1, StartTime}] :
        /\ entries = [i \in 1..n |-> IndexEntry(PersistedUrl(i), cached_at[i],
                                                FileSize(Result("plain")))]
        /\ files = [h \in {_get_url_hash(PersistedUrl(i)) : i \in 1..n} |->
                      LET i == CHOOSE j \in 1..n : _get_url_hash(PersistedUrl(j)) = h
                      IN JsonFile(CacheData(PersistedUrl(i), cached_at[i],
                                            Result("plain")),
                                  FileSize(Result("plain")))]
        /\ max_cache_size \in {n, n + 1}
        /\ cacheOps = MaxEvictionOps
        /\ prevOp = NoOp
        /\ lastOp = NoOp

\* URLs stored into the filled cache: one it holds, one it does not.
EvictionUrls == {PersistedUrl(1), PersistedUrl(MaxEntries + 1)}

NextEviction ==
    \E url \in EvictionUrls, result \in Results : save_result(url, result)

----------------------------------------------------------------------------
\* ===================== _get_url_hash as a function =======================

\* Query parameters of the URLs handed to _get_url_hash: a volatile one with
\* two values, one with a value and with a blank value, and a third.
KeyParams ==
    { <<"ts", "1">>, <<"ts", "2">>, <<"id", "1">>, <<"id", "">>, <<"x", "2">> }

KeyUrls ==
    { Url("https", netloc, "/video/1", query, fragment) :
        netloc \in {"www.douyin.com", "a.example"},
        query \in SeqsUpTo(KeyParams, MaxQuery),
        fragment \in {"", "top"} }

NoKeys == [called |-> FALSE]

InitNoKey ==
    /\ hash_in = NoKeys
    /\ hash_out = NoKeys

InitKey ==
    /\ \E a \in KeyUrls, b \in KeyUrls : hash_in = [called |-> TRUE, a |-> a, b |-> b]
    /\ hash_out = NoKeys

\* _get_url_hash is called for both URLs.
GetUrlHashes ==
    /\ KeyFrame
    /\ hash_in.called
    /\ ~hash_out.called
    /\ hash_out' = [called |-> TRUE, a |-> _get_url_hash(hash_in.a),
                    b |-> _get_url_hash(hash_in.b)]
    /\ UNCHANGED hash_in

NextKey == GetUrlHashes

----------------------------------------------------------------------------
\* ================= DocumentCache called from threads =====================
\* DocumentCache takes no lock: calls made from different threads run their
\* statements interleaved.

Threads == {1, 2}

\* URLs the threads ask for.
ThreadUrls ==
    { Url("https", "www.douyin.com", "/video/1", << <<"ts", "1">> >>, ""),
      Url("https", "a.example", "/x", <<>>, "") }

\* The calls a thread makes.
ThreadCalls ==
    { [op |-> "save", url |-> url, result |-> result] :
        url \in ThreadUrls, result \in Results }
    \cup { [op |-> "get", url |-> url, result |-> Result("none")] :
             url \in ThreadUrls }

\* The cache the threads share: empty, or with one entry that is fresh or
\* past its lifetime.
InitSharedCache ==
    /\ max_cache_size = 2
    /\ \/ entries = <<>> /\ files = <<>>
       \/ \E url \in ThreadUrls, cached_at \in {StartTime - Ttl - 1, StartTime} :
            /\ entries = <<IndexEntry(url, cached_at, FileSize(Result("plain")))>>
            /\ files = [h \in {_get_url_hash(url)} |->
                          JsonFile(CacheData(url, cached_at, Result("plain")),
                                   FileSize(Result("plain")))]
    /\ cacheOps = 0
    /\ prevOp = NoOp
    /\ lastOp = NoOp

\* Every thread makes its call.
ThreadsCall(calls) ==
    /\ ThreadFrame
    /\ tw = <<>>
    /\ tw' = [w \in Threads |->
                [pc |-> IF calls[w].op = "save" THEN "save_open" ELSE "get_lookup",
                 op |-> calls[w].op, url |-> calls[w].url,
                 result |-> calls[w].result,
                 cache_entry |-> [found |-> FALSE],
                 ret |-> [kind |-> "pending"]]]
    /\ t0' = CacheState(entries, files)
    /\ UNCHANGED <<entries, files>>

ThreadAt(w, pc) == tw # <<>> /\ tw[w].pc = pc

\* open(cache_file, 'w') of save_result (line 183): the file is truncated.
ThreadSaveOpen(w) ==
    /\ ThreadFrame
    /\ ThreadAt(w, "save_open")
    /\ files' = WithFile(files, _get_url_hash(tw[w].url), PartialFile(0))
    /\ tw' = [tw EXCEPT ![w].pc = "save_dump"]
    /\ UNCHANGED <<entries, t0>>

\* json.dump(cache_data, f) of save_result (line 184).  A file unlinked
\* since it was opened stays unlinked.
ThreadSaveDump(w) ==
    LET h == _get_url_hash(tw[w].url)
        failed == tw[w].result = Result("unserializable")
        written == IF failed THEN PartialFile(PartialFileSize)
                   ELSE JsonFile(CacheData(tw[w].url, now, tw[w].result),
                                 FileSize(tw[w].result))
    IN /\ ThreadFrame
       /\ ThreadAt(w, "save_dump")
       /\ files' = IF h \in DOMAIN files THEN WithFile(files, h, written) ELSE files
       /\ tw' = IF failed
                THEN [tw EXCEPT ![w].pc = "done", ![w].ret = FALSE]
                ELSE [tw EXCEPT ![w].pc = "save_index"]
       /\ UNCHANGED <<entries, t0>>

\* The index update of save_result (lines 187-194); cache_file.stat()
\* raises when the file is gone.
ThreadSaveIndex(w) ==
    LET h == _get_url_hash(tw[w].url)
    IN /\ ThreadFrame
       /\ ThreadAt(w, "save_index")
       /\ IF h \in DOMAIN files
          THEN /\ entries' = PutEntry(entries, IndexEntry(tw[w].url, now, files[h].size))
               /\ tw' = [tw EXCEPT ![w].pc = "save_cleanup"]
          ELSE /\ entries' = entries
               /\ tw' = [tw EXCEPT ![w].pc = "done", ![w].ret = FALSE]
       /\ UNCHANGED <<files, t0>>

\* self._cleanup_if_needed() and return True (lines 199-201); with an empty
\* index _cleanup_old_entries raises IndexError and save_result returns False.
ThreadSaveCleanup(w) ==
    LET st == CacheState(entries, files)
        raises == _get_cache_size(st) > max_cache_size /\ entries = <<>>
        out == IF raises THEN st ELSE _cleanup_if_needed(st, max_cache_size)
    IN /\ ThreadFrame
       /\ ThreadAt(w, "save_cleanup")
       /\ entries' = out.entries
       /\ files' = out.files
       /\ tw' = [tw EXCEPT ![w].pc = "done", ![w].ret = ~raises]
       /\ UNCHANGED t0

\* cache_entry = self.index["entries"].get(url_hash) (line 138).
ThreadGetLookup(w) ==
    LET h == _get_url_hash(tw[w].url)
    IN /\ ThreadFrame
       /\ ThreadAt(w, "get_lookup")
       /\ tw' = [tw EXCEPT
                   ![w].pc = "get_valid",
                   ![w].cache_entry =
                       IF HasEntry(entries, h)
                       THEN [found |-> TRUE, cached_at |-> EntryOf(entries, h).cached_at]
                       ELSE [found |-> FALSE]]
       /\ UNCHANGED <<entries, files, t0>>

\* self._is_cache_valid(cache_entry) (lines 140-144).
ThreadGetValid(w) ==
    LET h == _get_url_hash(tw[w].url)
        e == tw[w].cache_entry
    IN /\ ThreadFrame
       /\ ThreadAt(w, "get_valid")
       /\ tw' = IF ~e.found
                THEN [tw EXCEPT ![w].pc = "done", ![w].ret = None]
                ELSE IF Expired(e.cached_at, now) \/ h \notin DOMAIN files
                     THEN [tw EXCEPT ![w].pc = "get_remove"]
                     ELSE [tw EXCEPT ![w].pc = "get_read"]
       /\ UNCHANGED <<entries, files, t0>>

\* self._remove_cache_entry(url_hash) and return None (lines 143-144, 156-157).
ThreadGetRemove(w) ==
    LET out == _remove_cache_entry(CacheState(entries, files), _get_url_hash(tw[w].url))
    IN /\ ThreadFrame
       /\ ThreadAt(w, "get_remove")
       /\ entries' = out.entries
       /\ files' = out.files
       /\ tw' = [tw EXCEPT ![w].pc = "done", ![w].ret = None]
       /\ UNCHANGED t0

\* open(cache_file) and json.load(f) (lines 147-151); an exception leads to
\* the removal of the entry.
ThreadGetRead(w) ==
    LET h == _get_url_hash(tw[w].url)
        readable == h \in DOMAIN files /\ files[h].readable
    IN /\ ThreadFrame
       /\ ThreadAt(w, "get_read")
       /\ tw' = IF readable
                THEN [tw EXCEPT ![w].pc = "done", ![w].ret = Value(files[h].data)]
                ELSE [tw EXCEPT ![w].pc = "get_remove"]
       /\ UNCHANGED <<entries, files, t0>>

NextThreads ==
    \/ \E calls \in [Threads -> ThreadCalls] : ThreadsCall(calls)
    \/ \E w \in Threads : ThreadSaveOpen(w)
    \/ \E w \in Threads : ThreadSaveDump(w)
    \/ \E w \in Threads : ThreadSaveIndex(w)
    \/ \E w \in Threads : ThreadSaveCleanup(w)
    \/ \E w \in Threads : ThreadGetLookup(w)
    \/ \E w \in Threads : ThreadGetValid(w)
    \/ \E w \in Threads : ThreadGetRemove(w)
    \/ \E w \in Threads : ThreadGetRead(w)

----------------------------------------------------------------------------
\* ============ AsyncBatchProcessor: the batch that uses the cache =========
\* mcp_handlers.py builds AsyncBatchProcessor(max_concurrent, use_cache=True)
\* and awaits processor.process_urls(urls, process_video_async, ...).  Each
\* unit acquires a slot of the limiter, checks the cache, on a miss runs the
\* work, stores a successful result, records its outcome and releases the
\* slot.  The cache is the DocumentCache above.

MaxJobUrls == 2

NoJob == [pc |-> "idle", slots |-> 0, units |-> <<>>]

InitNoJob == job = NoJob

\* What the work of one unit comes to.
UnitWorkOutcomes ==
    { [ok |-> TRUE, result |-> r] : r \in Results }
    \cup { [ok |-> FALSE, result |-> Result("none")] }

\* processor.process_urls(urls, process_func, description) is awaited.
process_urls(us, limit) ==
    /\ JobFrame
    /\ job.pc = "idle"
    /\ Len(us) > 0
    /\ job' = [pc |-> "running", slots |-> limit,
               units |-> [i \in DOMAIN us |->
                            [url |-> us[i], pc |-> "waiting", status |-> "pending",
                             had_valid |-> FALSE, invoked |-> FALSE,
                             stored |-> FALSE, result |-> None]]]
    /\ UNCHANGED <<entries, files>>

\* A unit acquires a slot of the limiter.
JobUnitAcquire(i) ==
    /\ JobFrame
    /\ job.pc = "running"
    /\ i \in DOMAIN job.units
    /\ job.units[i].pc = "waiting"
    /\ job.slots > 0
    /\ job' = [job EXCEPT !.slots = @ - 1, !.units[i].pc = "acquired"]
    /\ UNCHANGED <<entries, files>>

\* The unit checks the cache: a hit is recorded as cached and the slot is
\* released; on a miss the work is started.
JobUnitCheck(i) ==
    LET u == job.units[i]
        h == _get_url_hash(u.url)
        out == GetCachedOutcome(CacheState(entries, files), u.url, now)
        valid == /\ HasEntry(entries, h)
                 /\ ~Expired(EntryOf(entries, h).cached_at, now)
                 /\ h \in DOMAIN files
                 /\ files[h].readable
    IN /\ JobFrame
       /\ job.pc = "running"
       /\ i \in DOMAIN job.units
       /\ u.pc = "acquired"
       /\ entries' = out.st.entries
       /\ files' = out.st.files
       /\ job' = IF out.ret # None
                 THEN [job EXCEPT !.slots = @ + 1,
                                  !.units[i].pc = "done",
                                  !.units[i].status = "cached",
                                  !.units[i].had_valid = valid,
                                  !.units[i].result = out.ret]
                 ELSE [job EXCEPT !.units[i].pc = "working",
                                  !.units[i].had_valid = valid,
                                  !.units[i].invoked = TRUE]

\* The work of the unit ends: a result is stored in the cache, the outcome
\* is recorded and the slot is released.
JobUnitWorkDone(i, outcome) ==
    LET u == job.units[i]
        out == SaveResultOutcome(CacheState(entries, files), u.url,
                                 outcome.result, max_cache_size, now)
    IN /\ JobFrame
       /\ job.pc = "running"
       /\ i \in DOMAIN job.units
       /\ u.pc = "working"
       /\ IF outcome.ok
          THEN /\ entries' = out.st.entries
               /\ files' = out.st.files
               /\ job' = [job EXCEPT !.slots = @ + 1,
                                     !.units[i].pc = "done",
                                     !.units[i].status = "success",
                                     !.units[i].stored = TRUE,
                                     !.units[i].result = Value(outcome.result)]
          ELSE /\ UNCHANGED <<entries, files>>
               /\ job' = [job EXCEPT !.slots = @ + 1,
                                     !.units[i].pc = "done",
                                     !.units[i].status = "failure"]

\* process_urls returns once every unit is done.
JobReturn ==
    /\ JobFrame
    /\ job.pc = "running"
    /\ \A i \in DOMAIN job.units : job.units[i].pc = "done"
    /\ job' = [job EXCEPT !.pc = "returned"]
    /\ UNCHANGED <<entries, files>>

NextJob ==
    \/ \E us \in SeqsUpTo(CacheUrls, MaxJobUrls), limit \in 1..MaxConcurrent :
         process_urls(us, limit)
    \/ \E i \in 1..MaxJobUrls : JobUnitAcquire(i)
    \/ \E i \in 1..MaxJobUrls : JobUnitCheck(i)
    \/ \E i \in 1..MaxJobUrls, outcome \in UnitWorkOutcomes :
         JobUnitWorkDone(i, outcome)
    \/ JobReturn

----------------------------------------------------------------------------
\* ================== get_strategy(url) as a function ======================

\* URLs handed to get_strategy: the hosts of the registered platforms, one
\* in upper case, and another host; a plain path and one that names a
\* platform.
StrategyUrls ==
    { Url("https", netloc, path, <<>>, "") :
        netloc \in {"www.douyin.com", "v.douyin.com", "www.iesdouyin.com",
                    "www.xiaohongshu.com", "www.xhs.com", "www.zhihu.com",
                    "zhuanlan.zhihu.com", "WWW.ZHIHU.COM", "a.example"},
        path \in {"/x", "/zhihu.com"} }

\* update_strategy("zhihu", min_interval=1) has been called (lines 215-225).
UpdatedStrategies ==
    [DefaultStrategies EXCEPT !["zhihu"] = [@ EXCEPT !.min_interval = 1]]

NotResolved == [called |-> FALSE]

InitNoResolve ==
    /\ resolve_url = NotResolved
    /\ resolved = NotResolved

\* A manager in use: a registry, timestamps of earlier requests, and a URL.
InitResolve ==
    /\ now = StartTime
    /\ aSemaphore = AsyncMaxConcurrent
    /\ aReq = [t \in 1..MaxRequests |-> IdleRequest]
    /\ strategies \in {DefaultStrategies, UpdatedStrategies}
    /\ last_request_times \in
         { <<>>, [p \in {"zhihu"} |-> StartTime],
           [p \in {"douyin", "default"} |-> StartTime - 1] }
    /\ \E url \in StrategyUrls : resolve_url = [called |-> TRUE, url |-> url]
    /\ resolved = NotResolved

\* get_strategy(url) is called.
GetStrategy ==
    /\ ResolveFrame
    /\ resolve_url.called
    /\ ~resolved.called
    /\ resolved' = [called |-> TRUE, strategy |-> get_strategy_of_url(resolve_url.url)]
    /\ UNCHANGED <<resolve_url, strategies, last_request_times>>

NextResolve == GetStrategy

\* ---- the registry is changed ----
\* Values a caller passes for a numeric field of a strategy.
StrategyValues == {-1, 0, 5}

\* Strategies a caller builds: PlatformStrategy(name, min_interval,
\* max_interval, max_retries=3, max_concurrent=2) checks nothing (lines 18-50).
CustomStrategies ==
    { [name |-> "custom", min_interval |-> lo, max_interval |-> hi,
       max_retries |-> 3, max_concurrent |-> 2] :
        lo \in StrategyValues, hi \in StrategyValues }

\* add_custom_strategy(platform, strategy), lines 211-214.
add_custom_strategy(platform, strategy) ==
    /\ ResolveFrame
    /\ strategies' = [p \in (DOMAIN strategies) \cup {platform} |->
                        IF p = platform THEN strategy ELSE strategies[p]]
    /\ UNCHANGED <<last_request_times, resolveVars>>

\* update_strategy(platform, key=value), lines 216-225: setattr for a key the
\* strategy has, nothing for another key or an unknown platform.
update_strategy(platform, key, value) ==
    /\ ResolveFrame
    /\ strategies' =
         IF platform \in DOMAIN strategies /\ key \in DOMAIN strategies[platform]
         THEN [strategies EXCEPT ![platform] = [@ EXCEPT ![key] = value]]
         ELSE strategies
    /\ UNCHANGED <<last_request_times, resolveVars>>

NextRegistry ==
    \/ \E strategy \in CustomStrategies : add_custom_strategy("custom", strategy)
    \/ \E platform \in {"zhihu", "unknown"},
          key \in {"min_interval", "max_interval", "max_retries",
                   "max_concurrent", "burst"},
          value \in StrategyValues : update_strategy(platform, key, value)

----------------------------------------------------------------------------
InitOthers == InitBatch /\ InitAsync /\ InitBlocking

\* No worker thread has called the cache.
InitNoThreads ==
    /\ tw = <<>>
    /\ t0 = CacheState(<<>>, <<>>)

InitIdle == InitNoKey /\ InitNoResolve /\ InitNoThreads /\ InitNoJob

Init == InitOthers /\ InitEmptyCache(2) /\ InitIdle

InitDocumentCache == InitOthers /\ InitCache /\ InitIdle

InitHash ==
    InitOthers /\ InitEmptyCache(2) /\ InitKey /\ InitNoResolve /\ InitNoThreads
    /\ InitNoJob

InitStrategy ==
    /\ InitBatch /\ InitBlocking /\ InitEmptyCache(2)
    /\ InitNoKey /\ InitNoThreads /\ InitNoJob
    /\ InitResolve

SpecStrategy == InitStrategy /\ [][NextResolve]_vars

SpecRegistry == Init /\ [][NextRegistry]_vars

InitThreads ==
    /\ InitOthers /\ InitSharedCache
    /\ InitNoKey /\ InitNoResolve /\ InitNoThreads /\ InitNoJob

SpecCacheThreads == InitThreads /\ [][NextThreads]_vars

InitJob ==
    /\ InitOthers /\ InitSharedCache
    /\ InitNoKey /\ InitNoResolve /\ InitNoThreads /\ InitNoJob

SpecCachedBatch == InitJob /\ [][NextJob]_vars

SpecKey == InitHash /\ [][NextKey]_vars

SpecBatch == Init /\ [][NextBatch]_vars

SpecAsync == Init /\ [][NextAsync]_vars

\* A new AsyncSafeRequester in a process whose platform_manager (the global
\* of platform_strategies.py line 229) has just paced a request to zhihu.
InitAsyncInUse ==
    /\ InitBatch /\ InitBlocking /\ InitEmptyCache(2) /\ InitIdle
    /\ now = StartTime
    /\ strategies = DefaultStrategies
    /\ last_request_times = [p \in {"zhihu"} |-> StartTime]
    /\ aSemaphore = AsyncMaxConcurrent
    /\ aReq = [t \in 1..MaxRequests |-> IdleRequest]

SpecAsyncInUse == InitAsyncInUse /\ [][NextAsync]_vars

\* asyncio.Semaphore hands its slots to the waiting calls in the order in
\* which they called acquire() (line 553).
AsyncAcquireFifo(t, required_interval) ==
    /\ \A u \in 1..(t - 1) : aReq[u].pc # "limiter"
    /\ AsyncAcquireAndCheck(t, required_interval)

NextAsyncFifo ==
    \/ AsyncTick
    \/ \E t \in 1..MaxRequests, url \in AsyncUrls : AsyncGetCall(t, url)
    \/ \E t \in 1..MaxRequests, r \in 0..MaxInterval : AsyncAcquireFifo(t, r)
    \/ \E t \in 1..MaxRequests : AsyncWake(t)
    \/ \E t \in 1..MaxRequests, o \in AsyncNetOutcomes : AsyncNetDone(t, o)

SpecAsyncFifo == Init /\ [][NextAsyncFifo]_vars

\* The cooperative requester with tasks that may be cancelled.
NextAsyncCancel ==
    \/ NextAsync
    \/ \E t \in 1..MaxRequests : AsyncCancel(t)

SpecAsyncCancel == Init /\ [][NextAsyncCancel]_vars

SpecBlocking == Init /\ [][NextBlocking]_vars

SpecAsyncBatchLive == Init /\ [][NextAsyncBatch]_vars /\ FairAsyncBatch

SpecCache == InitDocumentCache /\ [][NextCache]_vars

InitFilled == InitOthers /\ InitEviction /\ InitIdle

SpecDamagedCache == InitDocumentCache /\ [][NextDamagedCache]_vars

SpecEviction == InitFilled /\ [][NextEviction]_vars

\* A process that uses one of the two requesters.
NextFetch ==
    \/ (max_retries = -1 /\ NextAsync)
    \/ (aReq[1].pc = "idle" /\ NextBlocking)

SpecFetch == Init /\ [][NextFetch]_vars

----------------------------------------------------------------------------
\* ============================== Claims ==================================

RaisingUnits == {i \in DOMAIN processor_func : processor_func[i] = "raise"}
FailureRecords ==
    {i \in DOMAIN processed_results : processed_results[i].status = "error"}
RunningUnits == {i \in DOMAIN unitPc : unitPc[i] = "running"}

\* C1: partial-failure isolation.  A batch (async or sequential) is never
\* aborted by a raising unit; when it returns it holds one outcome per URL,
\* an error record exactly for the units whose work raised and the unit's
\* own result for every other unit, so k raising units give k failure
\* records and n-k results.
C1_PartialFailureIsolation ==
    /\ batchPc # "aborted"
    /\ batchPc = "returned" =>
         /\ Len(processed_results) = Len(urls)
         /\ \A i \in 1..Len(urls) :
               IF processor_func[i] = "raise"
               THEN processed_results[i] = ErrorRecord(urls[i])
               ELSE processed_results[i].status = "ok"
         /\ Cardinality(FailureRecords) = Cardinality(RaisingUnits)

\* C1 witness: a sequential batch has returned although a unit raised
\* before a later unit that succeeded.
C1_Witness ==
    /\ batchPc = "returned"
    /\ batch_size >= 1
    /\ \E i, j \in 1..Len(urls) :
         /\ i < j
         /\ processor_func[i] = "raise"
         /\ processor_func[j] = "ok"
         /\ processed_results[j].status = "ok"

\* C2: bounded batch concurrency.  The number of units that hold the
\* limiter and run processor_func never exceeds max_concurrent.
C2_BoundedConcurrency ==
    batchPc = "gather" => Cardinality(RunningUnits) <= max_concurrent

\* C2 witness: the limiter is full while another unit waits for a slot.
C2_Witness ==
    /\ batchPc = "gather"
    /\ Cardinality(RunningUnits) = max_concurrent
    /\ \E i \in DOMAIN unitPc : unitPc[i] = "waiting"

\* Requests of the cooperative requester that address the same origin.
SameOrigin(t1, t2) ==
    /\ aReq[t1].pc # "idle" /\ aReq[t2].pc # "idle"
    /\ aReq[t1].url.netloc = aReq[t2].url.netloc

Abs(x) == IF x < 0 THEN -x ELSE x

\* C3: same-origin pacing is race-free.  The check of the elapsed time and
\* the update of the origin's timestamp are one exclusive section: no two
\* requests to one origin are between their check and their update at the
\* same time, and no two of them go on to the network having computed
\* their elapsed time from the same timestamp value.
C3_ExclusivePacing ==
    \A t1, t2 \in 1..MaxRequests :
        (t1 # t2 /\ SameOrigin(t1, t2)) =>
            /\ ~(aReq[t1].pc = "pacing" /\ aReq[t2].pc = "pacing")
            /\ ~(/\ aReq[t1].pc = "network" /\ aReq[t2].pc = "network"
                 /\ aReq[t1].last_time = aReq[t2].last_time)

\* C4: pacing lower bound.  Two network calls to one origin are never sent
\* less than the strategy's minimum interval apart.
C4_PacingLowerBound ==
    \A t1, t2 \in 1..MaxRequests :
        (/\ t1 # t2 /\ SameOrigin(t1, t2)
         /\ aReq[t1].sent_at > 0 /\ aReq[t2].sent_at > 0) =>
            Abs(aReq[t1].sent_at - aReq[t2].sent_at) >=
                get_strategy(detect_platform(aReq[t1].url)).min_interval

\* The call of the blocking requester has ended.
BlockingEnded == bReq.pc \in {"returned", "raised"}

LastOutcome == bReq.history[Len(bReq.history)]

\* C5: retry exhaustion is bounded and non-throwing.  A call whose every
\* attempt got a status the Retry strategy retries (503, ...) ends after
\* exactly max_retries + 1 attempts by returning the last response, with
\* its failure status, and does not raise.
C5_RetryExhaustion ==
    (BlockingEnded /\ \A i \in DOMAIN bReq.history : IsRetry(bReq.history[i])) =>
        /\ Len(bReq.history) = max_retries + 1
        /\ bReq.pc = "returned"
        /\ bReq.result = Response(LastOutcome.status)

\* C5 witness: max_retries = 2 and three attempts that all got 503.
C5_Witness ==
    /\ BlockingEnded
    /\ max_retries = 2
    /\ bReq.history = <<Response(503), Response(503), Response(503)>>

StoreThenLookup ==
    /\ prevOp.op = "save"
    /\ prevOp.ret = TRUE
    /\ lastOp.op = "get"
    /\ lastOp.url = prevOp.url
    /\ lastOp.at - prevOp.at < Ttl

\* C7: after a successful store of (u, P), a lookup of u before the lifetime
\* elapses, with no store, purge or clear in between, returns P itself.
C7_CacheRoundTrip ==
    StoreThenLookup => lastOp.ret = Value(prevOp.result)

\* ---- C8 ----
\* The parameters the source of a URL marks volatile: those of the douyin
\* hosts, none elsewhere.
SourceVolatile(url) ==
    IF url.netloc \in {"www.douyin.com"}
    THEN {"timestamp", "ts", "_t", "time"}
    ELSE {}

StripVolatile(url) ==
    SelectSeq(url.query, LAMBDA kv : kv[1] \notin SourceVolatile(url))

SameParts(a, b) ==
    /\ a.scheme = b.scheme
    /\ a.netloc = b.netloc
    /\ a.path = b.path
    /\ StripVolatile(a) = StripVolatile(b)

SameKey == hash_out.a = hash_out.b

\* No remaining parameter has a blank value or shares its key with another.
PlainQuery(url) ==
    LET q == StripVolatile(url)
    IN /\ \A i \in DOMAIN q : q[i][2] # ""
       /\ \A i, j \in DOMAIN q : i # j => q[i][1] # q[j][1]

\* C8: two URLs get the same cache key exactly when they have the same
\* scheme, host and path and the same query parameters after the volatile
\* parameters of their source are removed; the fragment is ignored.
C8_KeyEquivalence ==
    hash_out.called => (SameKey <=> SameParts(hash_in.a, hash_in.b))

\* C8 as the code has it: URLs with the same scheme, host, path and remaining
\* parameters get the same key, and URLs with the same key have the same
\* scheme, host and path and, when no remaining parameter is blank or
\* repeats a key, the same remaining parameters.
C8_KeyEquivalencePlain ==
    hash_out.called =>
        /\ SameParts(hash_in.a, hash_in.b) => SameKey
        /\ SameKey =>
             /\ hash_in.a.scheme = hash_in.b.scheme
             /\ hash_in.a.netloc = hash_in.b.netloc
             /\ hash_in.a.path = hash_in.b.path
        /\ (SameKey /\ PlainQuery(hash_in.a) /\ PlainQuery(hash_in.b)) =>
             SameParts(hash_in.a, hash_in.b)

\* Two douyin URLs that differ in the value of ts only got the same key.
C8_Witness ==
    /\ hash_out.called
    /\ hash_in.a.netloc = "www.douyin.com"
    /\ hash_in.b.netloc = "www.douyin.com"
    /\ hash_in.a.query = << <<"id", "1">>, <<"ts", "1">> >>
    /\ hash_in.b.query = << <<"id", "1">>, <<"ts", "2">> >>
    /\ hash_in.a.fragment # hash_in.b.fragment
    /\ SameKey

\* ---- C9 ----
\* A lookup that found an index entry for its URL.
LookupOfEntry == lastOp.op = "get" /\ lastOp.had_entry

\* C9: a lookup returns the entry if and only if now - createdAt < ttl and
\* the payload is retrievable; otherwise, an age equal to ttl included, it
\* reports the entry absent and removes it from the index.
C9_TtlValidity ==
    LookupOfEntry =>
        /\ (lastOp.ret # None) <=> (lastOp.age < Ttl /\ lastOp.retrievable)
        /\ (lastOp.ret = None) => ~HasEntry(entries, lastOp.url_hash)

\* C9 as the code has it: the entry is returned if and only if
\* now - createdAt <= ttl and the payload is retrievable; otherwise it is
\* reported absent and removed from the index.
C9_TtlInclusive ==
    LookupOfEntry =>
        /\ (lastOp.ret # None) <=> (lastOp.age <= Ttl /\ lastOp.retrievable)
        /\ (lastOp.ret = None) => ~HasEntry(entries, lastOp.url_hash)

\* A lookup at the age of exactly ttl returned the entry.
C9_Witness ==
    /\ LookupOfEntry
    /\ lastOp.age = Ttl
    /\ lastOp.ret # None

\* ---- C10 ----
\* A successful store whose write left the cache above its budget.
StoreAboveBudget ==
    /\ lastOp.op = "save"
    /\ lastOp.ret = TRUE
    /\ _get_cache_size(lastOp.written) > max_cache_size

C11_SoftBlockDistinct ==
    (BlockingEnded /\ _is_captcha_page(LastOutcome)) =>
        bReq.result.kind # "response"

\* ---- C12 ----
\* The attempt with this outcome ended the call and its response is what
\* the caller got.
SurfacedAtOnce(i) ==
    /\ i = Len(bReq.history)
    /\ bReq.pc = "returned"
    /\ bReq.result = bReq.history[i]

AsyncBatchReturned == batchPc = "returned" /\ max_concurrent > 0

\* C13: a running async_batch_process_urls whose units' work terminates
\* eventually returns, and when it has returned every unit is in a terminal
\* state with a result and none holds or waits for a limiter slot.
C13_BatchCompletion ==
    /\ (batchPc = "gather") ~> AsyncBatchReturned
    /\ [](AsyncBatchReturned =>
            /\ semaphore = max_concurrent
            /\ Len(processed_results) = Len(urls)
            /\ \A i \in DOMAIN unitPc :
                 unitPc[i] = "done" /\ results[i].kind # "none")

\* A batch with more units than slots, one of them raising, has returned.
C13_Witness ==
    /\ AsyncBatchReturned
    /\ Len(urls) > max_concurrent
    /\ \E i \in DOMAIN processor_func : processor_func[i] = "raise"

\* ---- C14 ----
\* A lookup that found an index entry whose payload file was missing or
\* unreadable.
LookupOfDamagedEntry ==
    lastOp.op = "get" /\ lastOp.had_entry /\ ~lastOp.retrievable

IndexKeys == {entries[i].url_hash : i \in DOMAIN entries}

\* C15: after every completed operation of the cache the keys of the index
\* are exactly the payload files of the store.
C15_IndexPayloadConsistency == IndexKeys = DOMAIN files

\* ---- C16 ----
\* The calls that hold a limiter slot: in the pacing wait or in network I/O.
HoldingSlot == {t \in 1..MaxRequests : aReq[t].pc \in {"pacing", "network"}}

\* C16: the number of calls of one AsyncSafeRequester that hold a limiter
\* slot never exceeds its max_concurrent, whatever origins they target.
C16_GlobalInFlightBound ==
    /\ Cardinality(HoldingSlot) <= AsyncMaxConcurrent
    /\ aSemaphore = AsyncMaxConcurrent - Cardinality(HoldingSlot)

\* Every slot is held, by calls to different hosts of which one is pacing,
\* while a further call waits for the limiter.
C16_Witness ==
    /\ Cardinality(HoldingSlot) = AsyncMaxConcurrent
    /\ \E t1, t2 \in HoldingSlot :
         /\ aReq[t1].url.netloc # aReq[t2].url.netloc
         /\ aReq[t1].pc = "pacing"
    /\ \E t \in 1..MaxRequests : aReq[t].pc = "limiter"

\* ---- C17 ----
\* The platform whose pattern occurs in this lower-cased text.
PlatformNamedIn(text) ==
    CASE text \in {"www.douyin.com", "v.douyin.com", "www.iesdouyin.com"} -> "douyin"
      [] text \in {"www.xiaohongshu.com", "www.xhs.com"} -> "xiaohongshu"
      [] text \in {"www.zhihu.com", "zhuanlan.zhihu.com", "/zhihu.com"} -> "zhihu"
      [] OTHER -> "default"

LowerCased(text) == IF text = "WWW.ZHIHU.COM" THEN "www.zhihu.com" ELSE text

\* The platform whose pattern matches the host of the URL.
HostPlatform(url) == PlatformNamedIn(LowerCased(url.netloc))

\* The first platform, in the order douyin, xiaohongshu, zhihu, whose
\* pattern occurs in the host or in the path of the URL.
UrlPlatform(url) ==
    LET named == {PlatformNamedIn(LowerCased(url.netloc)),
                  PlatformNamedIn(LowerCased(url.path))}
    IN IF "douyin" \in named THEN "douyin"
       ELSE IF "xiaohongshu" \in named THEN "xiaohongshu"
       ELSE IF "zhihu" \in named THEN "zhihu"
       ELSE "default"

\* get_strategy leaves the registry and the timestamps as they are.
ResolutionIsPure ==
    [][GetStrategy => UNCHANGED <<strategies, last_request_times>>]_vars

\* C17: get_strategy(url) returns the strategy of the source whose pattern
\* matches the host of the URL, the default strategy when the host matches
\* none, and changes neither the registry nor a pacer timestamp.
C17_StrategyResolution ==
    /\ [](resolved.called =>
            resolved.strategy = strategies[HostPlatform(resolve_url.url)])
    /\ ResolutionIsPure

\* C17 as the code has it: the patterns are looked for in the whole
\* lower-cased URL, in the order douyin, xiaohongshu, zhihu.
C17_StrategyResolutionByUrl ==
    /\ [](resolved.called =>
            resolved.strategy = strategies[UrlPlatform(resolve_url.url)])
    /\ ResolutionIsPure

\* A URL of a host that matches no source, with a path that names zhihu,
\* got the updated zhihu strategy while timestamps were recorded.
C17_Witness ==
    /\ resolved.called
    /\ resolve_url.url.netloc = "a.example"
    /\ resolve_url.url.path = "/zhihu.com"
    /\ resolved.strategy = UpdatedStrategies["zhihu"]
    /\ strategies = UpdatedStrategies
    /\ last_request_times # <<>>

\* ---- C18 ----
AllThreadsDone == tw # <<>> /\ \A w \in Threads : tw[w].pc = "done"

\* What a call does to the cache when it runs alone.
CallAlone(st, call) ==
    IF call.op = "save"
    THEN SaveResultOutcome(st, call.url, call.result, max_cache_size, now)
    ELSE GetCachedOutcome(st, call.url, now)

\* The calls of the threads ended as if they had run one after the other
\* in this order.
AsIfInOrder(first, second) ==
    LET r1 == CallAlone(t0, tw[first])
        r2 == CallAlone(r1.st, tw[second])
    IN /\ tw[first].ret = r1.ret
       /\ tw[second].ret = r2.ret
       /\ entries = r2.st.entries
       /\ files = r2.st.files

\* C18: calls made concurrently by workers of one process are atomic with
\* respect to each other: they end as they would in one of the orders in
\* which they can run one at a time (no partly applied mutation is seen, no
\* call fails because of the other, no update is lost).
C18_AtomicIndexMutations ==
    AllThreadsDone => (AsIfInOrder(1, 2) \/ AsIfInOrder(2, 1))

\* ---- C19 ----
JobUnits == DOMAIN job.units

\* A unit that is past its cache check.
Checked(i) == job.units[i].pc \in {"working", "done"}

\* The slots of the limiter are held by the units between acquire and
\* release.
SlotsHeld ==
    Cardinality({i \in JobUnits : job.units[i].pc \in {"acquired", "working"}})

AsyncTimestampSet ==
    \A t \in DOMAIN aReq :
        aReq[t].pc \in {"network", "done"} =>
            LastTime(detect_platform(aReq[t].url)) >= aReq[t].sent_at

\* The blocking requester: a call whose network call is issued or over,
\* with a response or with an error, has its domain's timestamp at or after
\* the end of its pacing wait.
BlockingTimestampSet ==
    bReq.pc \in {"sending", "returned", "raised"} =>
        /\ _get_domain(bReq.url) \in DOMAIN last_request_time
        /\ last_request_time[_get_domain(bReq.url)] >= bReq.wake_at

\* C20: timestamp update ordering.  For every request the origin's last
\* request timestamp is set after the pacing wait and before the network
\* call is issued, so it is updated whether the call then succeeds or fails;
\* in the blocking requester and in the cooperative requester.
C20_TimestampUpdateOrdering ==
    AsyncTimestampSet /\ BlockingTimestampSet

\* ---- C21 ----
\* The requests that hold a slot of the limiter.
SlotHolders == {t \in DOMAIN aReq : aReq[t].pc \in {"pacing", "network"}}

\* Request t is cancelled in this step.
CancelledNow(t) == aReq[t].pc # "cancelled" /\ aReq'[t].pc = "cancelled"

\* C21: cancellation leaves the pacer untouched.  A cooperative request
\* cancelled while it waits for the limiter or sleeps in the pacer issues
\* no network call, its cancellation leaves every timestamp of the pacer as
\* it was (the request itself never wrote one), and the slot it held is
\* released: the free slots and the slot holders always add up to the size
\* of the limiter.
C21_CancellationLeavesPacer ==
    /\ [][\A t \in DOMAIN aReq :
            /\ CancelledNow(t) =>
                 /\ aReq[t].pc \in {"limiter", "pacing"}
                 /\ last_request_times' = last_request_times
                 /\ aReq'[t].sent_at = 0
                 /\ t \notin SlotHolders'
            /\ aReq[t].pc = "cancelled" => aReq'[t] = aReq[t]]_vars
    /\ [](aSemaphore + Cardinality(SlotHolders) = AsyncMaxConcurrent)

\* One request was cancelled in the pacer's sleep and one while waiting for
\* the limiter.
C21_Witness ==
    /\ \E t \in DOMAIN aReq : aReq[t].pc = "cancelled" /\ aReq[t].wake_at > 0
    /\ \E t \in DOMAIN aReq : aReq[t].pc = "cancelled" /\ aReq[t].wake_at = 0
    /\ aSemaphore + Cardinality(SlotHolders) = AsyncMaxConcurrent

\* ---- C22 ----
\* The end of a cooperative request is one the blocking requester's Retry
\* would have repeated: an error, or a status of the forcelist, with
\* retries left out of the strategy's max_retries.
EndsWhereBlockingRetries(t) ==
    /\ aReq[t].pc = "done"
    /\ aReq[t].result.kind = "none" \/ IsRetry(aReq[t].result)
    /\ MayRetry(get_strategy_of_url(aReq[t].url).max_retries)

\* C22: requester equivalence.  The cooperative requester classifies and
\* retries as the blocking one: for the same server responses both make the
\* same attempts, bounded by the maximum retries, and report the same final
\* outcome; so a cooperative request never ends on its first attempt with an
\* outcome the blocking requester retries.
C22_RequesterEquivalence ==
    \A t \in DOMAIN aReq : ~EndsWhereBlockingRetries(t)

\* ---- C23 ----
StrategyInvariant(strategy) ==
    /\ 0 <= strategy.min_interval
    /\ strategy.min_interval <= strategy.max_interval
    /\ strategy.max_retries >= 0
    /\ strategy.max_concurrent >= 1

\* C23: strategy invariant.  After any sequence of add_custom_strategy and
\* update_strategy calls every strategy of the registry has
\* 0 <= min_interval <= max_interval, max_retries >= 0 and
\* max_concurrent >= 1: an update that would break it does not take effect.
C23_StrategyInvariant ==
    \A platform \in DOMAIN strategies : StrategyInvariant(strategies[platform])

\* ---- C24 ----
\* Request t leaves the limiter queue or the pacer in this step.
PacerStep(t) ==
    /\ aReq[t].pc \in {"limiter", "pacing"}
    /\ aReq'[t].pc \in {"pacing", "network"}
    /\ aReq'[t].pc # aReq[t].pc

\* The step of request t changes no record but the one of this key.
OnlyRecordChanged(key) ==
    \A k \in DOMAIN last_request_times' :
        k # key => /\ k \in DOMAIN last_request_times
                   /\ last_request_times'[k] = last_request_times[k]

\* A request put to sleep by the pacer sleeps because of the record of this
\* key: the key has one, and the sleep ends an interval of the strategy
\* after it.
DelayedByRecordOf(t, key) ==
    (aReq[t].pc = "limiter" /\ aReq'[t].pc = "pacing") =>
        /\ key \in DOMAIN last_request_times
        /\ aReq'[t].wake_at - last_request_times[key]
             \in RequestIntervals(get_strategy(key))

\* The blocking requester: records are kept by host.
BlockingRecordsByHost ==
    /\ \A d \in DOMAIN last_request_time' :
         (bReq.pc = "sending" /\ d # _get_domain(bReq.url)) =>
             /\ d \in DOMAIN last_request_time
             /\ last_request_time'[d] = last_request_time[d]
    /\ bReq'.pc = "sleeping" /\ bReq.pc # "sleeping" =>
         /\ _get_domain(bReq'.url) \in DOMAIN last_request_time
         /\ bReq'.wake_at = last_request_time[_get_domain(bReq'.url)] + MinDelay

PacingRecordOf(url) ==
    IF detect_platform(url) \in DOMAIN last_request_times
    THEN last_request_times[detect_platform(url)]
    ELSE 0

IssuesNow(u) == aReq[u].pc # "network" /\ aReq'[u].pc = "network"

\* C25: issuance-order pacing.  For a fixed origin the requests leave the
\* pacer and issue their network calls in the order in which they were
\* issued to the requester (calls are numbered in that order), for every
\* interleaving and every choice of jittered interval: when a request
\* issues its network call no earlier request to the same host is still
\* waiting for the limiter or in the pacer.
C25_IssuanceOrderPacing ==
    [][\A u \in DOMAIN aReq :
          IssuesNow(u) =>
              \A t \in 1..(u - 1) :
                  aReq[t].url.netloc = aReq[u].url.netloc =>
                      aReq[t].pc \notin {"limiter", "pacing"}]_vars

\* ---- C26 ----
\* This step is a call of cleanup_expired.
SweepStep == cacheOps' = cacheOps - 1 /\ lastOp'.op = "cleanup_expired"

PastTtl(e) == now - e.cached_at > Ttl

PastTtlHashes == {entries[i].url_hash : i \in {j \in DOMAIN entries : PastTtl(entries[j])}}

\* C26: expired sweep.  cleanup_expired removes from the index and from the
\* payload store exactly the entries past their lifetime, returns how many
\* it removed and leaves every other index record and payload file as it
\* was; right after it no index entry is past its lifetime.
C26_ExpiredSweep ==
    [][SweepStep =>
         /\ entries' = SelectSeq(entries, LAMBDA e : ~PastTtl(e))
         /\ DOMAIN files' = DOMAIN files \ PastTtlHashes
         /\ \A h \in DOMAIN files' : files'[h] = files[h]
         /\ lastOp'.ret = Cardinality(PastTtlHashes)
         /\ \A i \in DOMAIN entries' : now' - entries'[i].cached_at <= Ttl]_vars

\* A sweep removed an entry and left a younger one.
C26_Witness ==
    /\ lastOp.op = "cleanup_expired"
    /\ lastOp.ret >= 1
    /\ entries # <<>>
    /\ \A i \in DOMAIN entries : entries[i].url_hash \in DOMAIN files

\* ---- C27 ----
\* C27: a successful store is retrievable.  When save_result(url, result)
\* has returned True the entry of url is in the index with its payload
\* file, whatever the size of the cache, its budget and the entries it holds:
\* the size check of the store never evicts the entry just stored.
C27_SuccessfulStoreRetrievable ==
    (lastOp.op = "save" /\ lastOp.ret = TRUE) =>
        /\ HasEntry(entries, lastOp.url_hash)
        /\ lastOp.url_hash \in DOMAIN files
        /\ files[lastOp.url_hash].readable

\* ---- C28 ----
\* This step is a call of save_result that returns False.
FailedStoreStep ==
    cacheOps' = cacheOps - 1 /\ lastOp'.op = "save" /\ lastOp'.ret = FALSE

\* C28: a failed store changes nothing.  When save_result returns False the
\* index and the payload store are as they were before the call, so an
\* entry cached for the URL before is still returned by get_cached_result.
C28_FailedStoreChangesNothing ==
    [][FailedStoreStep =>
         /\ entries' = entries
         /\ files' = files
         /\ GetCachedOutcome(CacheState(entries', files'), lastOp'.url, now').ret
              = GetCachedOutcome(CacheState(entries, files), lastOp'.url, now).ret]_vars

\* ---- C29 ----
\* Element i is the outcome of the unit of urls[i].
OutcomeOfUnit(i) ==
    /\ processed_results[i].url = urls[i]
    /\ IF processor_func[i] = "raise"
       THEN processed_results[i].status = "error"
       ELSE processed_results[i].status = "ok" /\ processed_results[i].unit = i

\* C29: batch results are positional.  The list async_batch_process_urls
\* returns has len(urls) elements and element i is the outcome, result or
\* error record, of urls[i], in whatever order the units completed; the
\* same holds for batch_process_urls across its sub-batches.
C29_PositionalResults ==
    batchPc = "returned" =>
        /\ DOMAIN processed_results = DOMAIN urls
        /\ \A i \in DOMAIN urls : OutcomeOfUnit(i)

\* A sequential batch of several sub-batches returned, its first unit having
\* raised and its last one not.
C29_Witness ==
    /\ batchPc = "returned"
    /\ batch_size >= 1 /\ batch_size < Len(urls)
    /\ processor_func[1] = "raise"
    /\ processor_func[Len(urls)] = "ok"
    /\ Len(processed_results) = Len(urls)
    /\ processed_results[Len(urls)].unit = Len(urls)

\* ---- C30 ----
\* C30: the limiter slot spans the pacing wait.  A request enters the
\* pacer's wait only on acquiring a slot of the limiter, keeps the slot
\* through the wait and the network call, and releases it on every exit
\* (response, timeout, client error): the free slots are the size of the
\* limiter less the requests in the pacer or on the network.
C30_SlotSpansPacingWait ==
    /\ [][\A t \in DOMAIN aReq :
            /\ (aReq[t].pc # "pacing" /\ aReq'[t].pc = "pacing") =>
                 (aReq[t].pc = "limiter" /\ aSemaphore' = aSemaphore - 1)
            /\ (aReq[t].pc = "pacing" /\ aReq'[t].pc # "pacing") =>
                 (aReq'[t].pc = "network" /\ aSemaphore' = aSemaphore)
            /\ (aReq[t].pc = "network" /\ aReq'[t].pc # "network") =>
                 (aReq'[t].pc = "done" /\ aSemaphore' = aSemaphore + 1)]_vars
    /\ [](aSemaphore = AsyncMaxConcurrent
                         - Cardinality({t \in DOMAIN aReq :
                                          aReq[t].pc \in {"pacing", "network"}}))

\* Every slot is held by a request asleep in the pacer of one platform
\* while a request to a platform with no record waits for the limiter.
C30_Witness ==
    /\ aSemaphore = 0
    /\ \E p \in DOMAIN last_request_times :
         \A t \in DOMAIN aReq :
             aReq[t].pc # "limiter" =>
                 /\ aReq[t].pc \in {"pacing", "done"}
                 /\ detect_platform(aReq[t].url) = p
    /\ Cardinality({t \in DOMAIN aReq : aReq[t].pc = "pacing"}) = AsyncMaxConcurrent
    /\ \E u \in DOMAIN aReq :
         /\ aReq[u].pc = "limiter"
         /\ detect_platform(aReq[u].url) \notin DOMAIN last_request_times

============================================================================
